---- MODULE Spec2Model ----
(***************************************************************************)
(* A model of slimta.edge.wsgi: the WSGI edge that receives a message over *)
(* HTTP, builds an envelope, hands it to the queue and maps the queue's    *)
(* answer to an HTTP status, while a spawned greenlet looks up the PTR     *)
(* record of the client address.                                           *)
(*                                                                         *)
(* Text that the code inspects character by character (the method, the     *)
(* path, reply codes, base64 header values, the content length) is a       *)
(* sequence of one-character strings; text it only compares or passes on   *)
(* is a string.  An optional value (a key of environ that may be missing,  *)
(* Python's None) is a set with at most one element.                       *)
(*                                                                         *)
(* Greenlets are cooperative: the lookup greenlet and the hub's callbacks  *)
(* run only while the handler is blocked (reading the body, inside         *)
(* handoff) or has returned.                                               *)
(***************************************************************************)
EXTENDS Integers, Sequences, FiniteSets, TLC

\* ---------------------------------------------------------------- bounds
\* the longest result list the queue's handoff returns
MaxResults == 2
\* the most PTR records one answer carries
MaxAnswers == 2
\* the most bytes the request body holds
MaxBody == 1

\* ------------------------------------------------------------- optionals
None == {}

Some(v) == {v}

\* dict.get(key, default)
Get(opt, default) == IF opt = {} THEN default ELSE CHOOSE v \in opt : TRUE

\* ------------------------------------------------------------------ text
UpperChar(c) ==
  CASE c = "p" -> "P" [] c = "o" -> "O" [] c = "s" -> "S" [] c = "t" -> "T"
    [] c = "g" -> "G" [] c = "e" -> "E" [] c = "h" -> "H"
    [] OTHER -> c

\* str.upper()
ToUpper(s) == [i \in 1..Len(s) |-> UpperChar(s[i])]

\* str.startswith(prefix)
StartsWith(s, prefix) ==
  Len(s) >= Len(prefix) /\ SubSeq(s, 1, Len(prefix)) = prefix

POST == <<"P", "O", "S", "T">>

\* re.match(pattern, path) for a pattern of literal characters: the pattern
\* matches at the start of the path
ReMatch(pattern, path) == StartsWith(path, pattern)

\* -------------------------------------------------------------- requests
Reqs == {"r1", "r2"}

\* the exception class WSGIResponse; headers and data default to []
WSGIResponse(status, headers, data) ==
  [type |-> "WSGIResponse", status |-> status, headers |-> headers,
   data |-> data, msg |-> ""]

\* any other exception, with its str()
Fault(msg) ==
  [type |-> "Exception", status |-> "", headers |-> <<>>, data |-> <<>>,
   msg |-> msg]

Reply(code, message) == [code |-> code, message |-> message]

\* Headers(headers).add_header('X-Smtp-Reply', code, message=...)
SmtpReplyHeader(reply) ==
  [name |-> "X-Smtp-Reply", code |-> reply.code, message |-> reply.message]

\* a faulty variant: every reply code 53x is taken for the 535 of a failed login
BuildHttpResponsePrefix53(smtp_reply) ==
  LET code == smtp_reply.code
      headers == <<SmtpReplyHeader(smtp_reply)>>
  IN  IF StartsWith(code, <<"2">>)
        THEN WSGIResponse("200 OK", headers, <<>>)
      ELSE IF StartsWith(code, <<"4">>)
        THEN WSGIResponse("503 Service Unavailable", headers, <<>>)
      ELSE IF StartsWith(code, <<"5", "3">>)
        THEN WSGIResponse("401 Unauthorized", headers, <<>>)
      ELSE WSGIResponse("500 Internal Server Error", headers, <<>>)

BuildHttpResponse(smtp_reply) ==
  LET code == smtp_reply.code
      headers == <<SmtpReplyHeader(smtp_reply)>>
  IN  IF StartsWith(code, <<"2">>)
        THEN WSGIResponse("200 OK", headers, <<>>)
      ELSE IF StartsWith(code, <<"4">>)
        THEN WSGIResponse("503 Service Unavailable", headers, <<>>)
      ELSE IF code = <<"5", "3", "5">>
        THEN WSGIResponse("401 Unauthorized", headers, <<>>)
      ELSE WSGIResponse("500 Internal Server Error", headers, <<>>)

\* a faulty variant: the content type is checked before the method
ValidateRequestTypeFirst(pattern, e) ==
  IF pattern # {} /\ Get(pattern, <<>>) # <<>>
     /\ ~ReMatch(Get(pattern, <<>>), Get(e.PATH_INFO, <<>>))
    THEN Some(WSGIResponse("404 Not Found", <<>>, <<>>))
  ELSE IF Get(e.CONTENT_TYPE, "message/rfc822") # "message/rfc822"
    THEN Some(WSGIResponse("415 Unsupported Media Type", <<>>, <<>>))
  ELSE IF ToUpper(e.REQUEST_METHOD) # POST
    THEN Some(WSGIResponse("405 Method Not Allowed",
                           <<[name |-> "Allow", value |-> "POST"]>>, <<>>))
  ELSE None

\* a faulty variant: any content type of the family message/ or text/ is let through
ValidateRequestAnyType(pattern, e) ==
  IF pattern # {} /\ Get(pattern, <<>>) # <<>>
     /\ ~ReMatch(Get(pattern, <<>>), Get(e.PATH_INFO, <<>>))
    THEN Some(WSGIResponse("404 Not Found", <<>>, <<>>))
  ELSE IF ToUpper(e.REQUEST_METHOD) # POST
    THEN Some(WSGIResponse("405 Method Not Allowed",
                           <<[name |-> "Allow", value |-> "POST"]>>, <<>>))
  ELSE IF Get(e.CONTENT_TYPE, "message/rfc822")
            \notin {"message/rfc822", "text/plain"}
    THEN Some(WSGIResponse("415 Unsupported Media Type", <<>>, <<>>))
  ELSE None

\* a faulty variant: the method is compared as it was sent
ValidateRequestCaseSensitive(pattern, e) ==
  IF pattern # {} /\ Get(pattern, <<>>) # <<>>
     /\ ~ReMatch(Get(pattern, <<>>), Get(e.PATH_INFO, <<>>))
    THEN Some(WSGIResponse("404 Not Found", <<>>, <<>>))
  ELSE IF e.REQUEST_METHOD # POST
    THEN Some(WSGIResponse("405 Method Not Allowed",
                           <<[name |-> "Allow", value |-> "POST"]>>, <<>>))
  ELSE IF Get(e.CONTENT_TYPE, "message/rfc822") # "message/rfc822"
    THEN Some(WSGIResponse("415 Unsupported Media Type", <<>>, <<>>))
  ELSE None

\* if self.uri_pattern: false for None and for ''
PatternConfigured(pattern) == pattern # None /\ Get(pattern, <<>>) # <<>>

\* _validate_request: the WSGIResponse it raises, or None when it returns
ValidateRequest(pattern, e) ==
  IF PatternConfigured(pattern)
     /\ ~ReMatch(Get(pattern, <<>>), Get(e.PATH_INFO, <<>>))
    THEN Some(WSGIResponse("404 Not Found", <<>>, <<>>))
  ELSE IF ToUpper(e.REQUEST_METHOD) # POST
    THEN Some(WSGIResponse("405 Method Not Allowed",
                           <<[name |-> "Allow", value |-> "POST"]>>, <<>>))
  ELSE IF Get(e.CONTENT_TYPE, "message/rfc822") # "message/rfc822"
    THEN Some(WSGIResponse("415 Unsupported Media Type", <<>>, <<>>))
  ELSE None

\* ---------------------------------------------------------------- base64
B64Alphabet ==
  <<
    "A", "B", "C", "D", "E", "F", "G", "H", "I", "J", "K", "L", "M", "N", "O", "P",
    "Q", "R", "S", "T", "U", "V", "W", "X", "Y", "Z", "a", "b", "c", "d", "e", "f",
    "g", "h", "i", "j", "k", "l", "m", "n", "o", "p", "q", "r", "s", "t", "u", "v",
    "w", "x", "y", "z", "0", "1", "2", "3", "4", "5", "6", "7", "8", "9", "+", "/"
  >>

IsB64Char(c) == \E i \in 1..64 : B64Alphabet[i] = c

B64Value(c) == (CHOOSE i \in 1..64 : B64Alphabet[i] = c) - 1

\* the characters binascii counts as valid: the alphabet and the pad
IsB64Valid(c) == IsB64Char(c) \/ c = "="

\* the next valid character of s from position i on, or "" when none is left
RECURSIVE FindValid(_, _)
FindValid(s, i) ==
  IF i > Len(s) THEN ""
  ELSE IF IsB64Valid(s[i]) THEN s[i]
  ELSE FindValid(s, i + 1)

\* binascii.a2b_base64, one character at a time: characters outside the
\* alphabet are skipped, a pad ends the input once two characters of a quad
\* were read, and bits left over at the end are "Incorrect padding"
RECURSIVE A2bBase64(_, _, _, _, _, _)
A2bBase64(s, i, quad_pos, leftchar, leftbits, out) ==
  IF i > Len(s)
    THEN [ok |-> leftbits = 0, bytes |-> out]
  ELSE IF s[i] = "="
    THEN IF quad_pos < 2 \/ (quad_pos = 2 /\ FindValid(s, i + 1) # "=")
           THEN A2bBase64(s, i + 1, quad_pos, leftchar, leftbits, out)
           ELSE [ok |-> TRUE, bytes |-> out]
  ELSE IF ~IsB64Char(s[i])
    THEN A2bBase64(s, i + 1, quad_pos, leftchar, leftbits, out)
  ELSE LET lc == leftchar * 64 + B64Value(s[i])
           lb == leftbits + 6
           qp == (quad_pos + 1) % 4
       IN  IF lb >= 8
             THEN A2bBase64(s, i + 1, qp, lc % (2 ^ (lb - 8)), lb - 8,
                            Append(out, (lc \div (2 ^ (lb - 8))) % 256))
             ELSE A2bBase64(s, i + 1, qp, lc, lb, out)

\* base64.b64decode: [ok, bytes]; not ok is the TypeError it raises
B64Decode(s) == A2bBase64(s, 1, 0, 0, 0, <<>>)

\* ------------------------------------------------- the recipient header
IsSpace(c) == c = " "

IsDelim(c) == c = "," \/ c = ";"

\* split_pattern.split(s), split_pattern being \s*[,;]\s*
RECURSIVE SplitPattern(_)
SplitPattern(s) ==
  IF ~\E j \in 1..Len(s) : IsDelim(s[j]) THEN <<s>>
  ELSE LET j == CHOOSE k \in 1..Len(s) :
                  IsDelim(s[k]) /\ \A m \in 1..(k - 1) : ~IsDelim(s[m])
           a == CHOOSE k \in 1..j :
                  /\ \A m \in k..(j - 1) : IsSpace(s[m])
                  /\ (k = 1 \/ ~IsSpace(s[k - 1]))
           b == CHOOSE k \in (j + 1)..(Len(s) + 1) :
                  /\ \A m \in (j + 1)..(k - 1) : IsSpace(s[m])
                  /\ (k = Len(s) + 1 \/ ~IsSpace(s[k]))
       IN  <<SubSeq(s, 1, a - 1)>> \o SplitPattern(SubSeq(s, b, Len(s)))

\* _get_sender: [ok, bytes]
GetSender(e) == B64Decode(Get(e.HTTP_X_ENVELOPE_SENDER, <<>>))

\* a faulty variant: an empty header is split and decoded like any other, which
\* gives one empty recipient
GetRecipientsUnguarded(e) ==
  LET rcpts_raw == Get(e.HTTP_X_ENVELOPE_RECIPIENT, <<>>)
      rcpts_split == SplitPattern(rcpts_raw)
      decoded == [i \in 1..Len(rcpts_split) |-> B64Decode(rcpts_split[i])]
  IN  [ok |-> \A i \in 1..Len(decoded) : decoded[i].ok,
       rcpts |-> [i \in 1..Len(decoded) |-> decoded[i].bytes]]

\* _get_recipients: [ok, rcpts]; not ok when a segment fails to decode
GetRecipients(e) ==
  LET rcpts_raw == Get(e.HTTP_X_ENVELOPE_RECIPIENT, <<>>)
      rcpts_split == SplitPattern(rcpts_raw)
      decoded == [i \in 1..Len(rcpts_split) |-> B64Decode(rcpts_split[i])]
  IN  IF rcpts_raw = <<>> THEN [ok |-> TRUE, rcpts |-> <<>>]
      ELSE [ok |-> \A i \in 1..Len(decoded) : decoded[i].ok,
            rcpts |-> [i \in 1..Len(decoded) |-> decoded[i].bytes]]

\* _get_ehlo: the client's identifier, or '[' REMOTE_ADDR ']'
GetEhlo(e) ==
  Get(e.HTTP_X_EHLO, <<"[", Get(e.REMOTE_ADDR, "unknown"), "]">>)

\* -------------------------------------------------- the content length
Digits == <<"0", "1", "2", "3", "4", "5", "6", "7", "8", "9">>

IsDigit(c) == \E i \in 1..10 : Digits[i] = c

DigitValue(c) == (CHOOSE i \in 1..10 : Digits[i] = c) - 1

RECURSIVE DecimalValue(_)
DecimalValue(s) ==
  IF s = <<>> THEN 0
  ELSE DecimalValue(SubSeq(s, 1, Len(s) - 1)) * 10 + DigitValue(s[Len(s)])

\* int(environ.get('CONTENT_LENGTH', 0)) of an unsigned decimal text:
\* [ok, value]; not ok is the ValueError of int()
ContentLength(e) ==
  IF e.CONTENT_LENGTH = None THEN [ok |-> TRUE, value |-> 0]
  ELSE LET text == Get(e.CONTENT_LENGTH, <<>>)
       IN  IF text # <<>> /\ \A i \in 1..Len(text) : IsDigit(text[i])
             THEN [ok |-> TRUE, value |-> DecimalValue(text)]
             ELSE [ok |-> FALSE, value |-> 0]

\* Envelope(sender, recipients): no message yet, an empty client dict
Envelope(sender, recipients) ==
  [sender |-> sender, recipients |-> recipients, message |-> None,
   client |-> [ip |-> None, host |-> None, name |-> None, protocol |-> None]]

\* ------------------------------------------------------ the queue's answer
\* one entry of handoff's result list is (envelope, result); a result is a
\* queue id, a QueueError or a RelayError carrying the relay's Reply
Accepted == [type |-> "id", reply |-> Reply(<<>>, "")]

QueueFailure == [type |-> "QueueError", reply |-> Reply(<<>>, "")]

RelayFailure(reply) == [type |-> "RelayError", reply |-> reply]

RelayReplies ==
  { Reply(<<"2", "5", "0">>, "2.0.0 Ok"),
    Reply(<<"4", "5", "0">>, "4.2.0 Mailbox busy"),
    Reply(<<"5", "3", "5">>, "5.7.8 Authentication failed"),
    Reply(<<"5", "3", "4">>, "5.7.9 Mechanism too weak"),
    Reply(<<"5", "5", "0">>, "5.1.1 No such user"),
    Reply(<<"3", "5", "4">>, "Go ahead") }

Outcomes == {Accepted, QueueFailure} \cup {RelayFailure(rp) : rp \in RelayReplies}

\* the results of the recipients after the first
LaterOutcomes ==
  {Accepted, QueueFailure,
   RelayFailure(Reply(<<"4", "5", "0">>, "4.2.0 Mailbox busy"))}

RECURSIVE LaterLists(_)
LaterLists(n) ==
  IF n = 0 THEN {<<>>}
  ELSE LET shorter == LaterLists(n - 1)
       IN  shorter \cup
           {Append(l, <<"envelope", o>>) : l \in shorter, o \in LaterOutcomes}

\* the result lists handoff may return, the empty one among them
ResultLists ==
  {<<>>} \cup
  {<<<<"envelope", o>>>> \o l : o \in Outcomes, l \in LaterLists(MaxResults - 1)}

\* a faulty variant: a QueueError is reported as the temporary failure 450
EnqueueResultQueue450(res) ==
  IF res = <<>> THEN Fault("list index out of range")
  ELSE IF res[1][2].type = "QueueError"
    THEN BuildHttpResponse(
           Reply(<<"4", "5", "0">>, "4.6.0 Error queuing message"))
  ELSE IF res[1][2].type = "RelayError"
    THEN BuildHttpResponse(res[1][2].reply)
  ELSE BuildHttpResponse(
         Reply(<<"2", "5", "0">>, "2.6.0 Message accepted for delivery"))

\* a faulty variant: the last result of the list is translated
EnqueueResultLast(res) ==
  IF res = <<>> THEN Fault("list index out of range")
  ELSE IF res[Len(res)][2].type = "QueueError"
    THEN BuildHttpResponse(
           Reply(<<"5", "5", "0">>, "5.6.0 Error queuing message"))
  ELSE IF res[Len(res)][2].type = "RelayError"
    THEN BuildHttpResponse(res[Len(res)][2].reply)
  ELSE BuildHttpResponse(
         Reply(<<"2", "5", "0">>, "2.6.0 Message accepted for delivery"))

\* _enqueue_envelope after handoff returned: the exception it raises
EnqueueResult(res) ==
  IF res = <<>> THEN Fault("list index out of range")
  ELSE IF res[1][2].type = "QueueError"
    THEN BuildHttpResponse(
           Reply(<<"5", "5", "0">>, "5.6.0 Error queuing message"))
  ELSE IF res[1][2].type = "RelayError"
    THEN BuildHttpResponse(res[1][2].reply)
  ELSE BuildHttpResponse(
         Reply(<<"2", "5", "0">>, "2.6.0 Message accepted for delivery"))

\* ---------------------------------------------------------- the resolver
\* reversename.from_address(ip)
FromAddress(ip) == [arpa |-> ip]

\* the PTR records a zone may hold for a name
PtrRecords(ptraddr) == {[of |-> ptraddr, rr |-> "a"], [of |-> ptraddr, rr |-> "b"]}

RECURSIVE AnswerLists(_, _)
AnswerLists(ptraddr, n) ==
  IF n = 0 THEN {<<>>}
  ELSE LET shorter == AnswerLists(ptraddr, n - 1)
       IN  shorter \cup
           {Append(l, rec) : l \in shorter, rec \in PtrRecords(ptraddr)}

\* what resolver.query(ptraddr, 'PTR') does: it returns an answer, raises a
\* DNSException, or raises something else
QueryOutcomes(ptraddr) ==
  {[kind |-> "answer", answers |-> l] : l \in AnswerLists(ptraddr, MaxAnswers)}
  \cup {[kind |-> "DNSException", answers |-> <<>>],
        [kind |-> "error", answers |-> <<>>]}

\* ----------------------------------------------------------------- state
VARIABLES
  uri_pattern,   \* self.uri_pattern
  environ,       \* each request's environ dict
  wsgi_input,    \* environ['wsgi.input']: bytes left, and read() calls made
  pc,            \* where each request's __call__ stands
  task,          \* each request's lookup greenlet
  killPending,   \* a kill(block=False) the hub has not delivered yet
  env,           \* the envelope of _get_envelope, None before it is built
  handoffs,      \* how many times self.handoff was called
  results,       \* the list handoff returned, inside _enqueue_envelope
  outcome,       \* history: the first result of the list handoff returned
  exc,           \* the exception in flight
  responses,     \* the start_response calls made: (status, headers)
  retval         \* what __call__ returned

vars ==
  <<uri_pattern, environ, wsgi_input, pc, task, killPending, env, handoffs,
    results, outcome, exc, responses, retval>>

\* ---------------------------------------------------------------- inputs
Patterns == {None, Some(<<>>), Some(<<"/", "m">>)}

Paths == {None, Some(<<"/", "m", "x">>), Some(<<"/", "x">>)}

Methods == {POST, <<"p", "o", "s", "t">>, <<"G", "E", "T">>}

ContentTypes ==
  {None, Some("message/rfc822"), Some("text/plain"),
   Some("message/rfc822; charset=us-ascii")}

SenderHeaders ==
  {None, Some(<<"d", "G", "V", "z", "d", "A", "=", "=">>), Some(<<"Q", "U", "J">>)}

RcptHeaders ==
  {None, Some(<<"Q", "U", "J", "D", ",", " ", "R", "E", "V", "G">>),
   Some(<<"Q", "U", "J", "D", ";", "Q", "U", "J">>)}

ContentLengths == {None, Some(<<"1">>), Some(<<"x">>)}

RemoteAddrs == {None, Some("192.0.2.7")}

EhloHeaders == {None, Some(<<"client.example">>)}

UrlSchemes == {None, Some(<<"h", "t", "t", "p", "s">>)}

\* an ordinary submission: nothing but 'slimta.*' keys are ever added
Typical ==
  [PATH_INFO |-> Some(<<"/", "m", "x">>), REQUEST_METHOD |-> POST,
   CONTENT_TYPE |-> Some("message/rfc822"),
   HTTP_X_ENVELOPE_SENDER |-> Some(<<"d", "G", "V", "z", "d", "A", "=", "=">>),
   HTTP_X_ENVELOPE_RECIPIENT |->
     Some(<<"Q", "U", "J", "D", ",", " ", "R", "E", "V", "G">>),
   HTTP_X_EHLO |-> None, CONTENT_LENGTH |-> Some(<<"1">>),
   REMOTE_ADDR |-> Some("192.0.2.7"), url_scheme |-> None,
   reverse_address |-> None, ptr_lookup_thread |-> None]

\* the environ dicts a WSGI server may pass (REQUEST_METHOD is always
\* there): every request line with the typical headers ...
RequestLineCases ==
  {[Typical EXCEPT !.PATH_INFO = p, !.REQUEST_METHOD = m, !.CONTENT_TYPE = c] :
     p \in Paths, m \in Methods, c \in ContentTypes}

\* ... and every combination of headers with the typical request line
HeaderCases ==
  {[Typical EXCEPT !.HTTP_X_ENVELOPE_SENDER = s,
                   !.HTTP_X_ENVELOPE_RECIPIENT = t, !.HTTP_X_EHLO = h,
                   !.CONTENT_LENGTH = n, !.REMOTE_ADDR = a, !.url_scheme = u] :
     s \in SenderHeaders, t \in RcptHeaders, h \in EhloHeaders,
     n \in ContentLengths, a \in RemoteAddrs, u \in UrlSchemes}

\* ... and a sender or recipient header that is there and empty, with any
\* other one
EmptyHeaderCases ==
  {[Typical EXCEPT !.HTTP_X_ENVELOPE_SENDER = s,
                   !.HTTP_X_ENVELOPE_RECIPIENT = t] :
     <<s, t>> \in {h \in (SenderHeaders \cup {Some(<<>>)})
                        \X (RcptHeaders \cup {Some(<<>>)}) :
                     Some(<<>>) \in {h[1], h[2]}}}

\* a server slot no request has arrived on
NoRequest == [Typical EXCEPT !.REMOTE_ADDR = None]

\* the state when the requests in `arrived` reach __call__, each with an
\* environ of `environs`
InitWith(arrived, environs) ==
  /\ \E f \in [arrived -> environs] :
       environ = [r \in Reqs |-> IF r \in arrived THEN f[r] ELSE NoRequest]
  /\ \E f \in [arrived -> 0..MaxBody] :
       wsgi_input = [r \in Reqs |->
                       [left |-> IF r \in arrived THEN f[r] ELSE 0, reads |-> 0]]
  /\ pc = [r \in Reqs |-> IF r \in arrived THEN "call" ELSE "idle"]
  /\ task = [r \in Reqs |-> "none"]
  /\ killPending = [r \in Reqs |-> FALSE]
  /\ env = [r \in Reqs |-> None]
  /\ handoffs = [r \in Reqs |-> 0]
  /\ results = [r \in Reqs |-> None]
  /\ outcome = [r \in Reqs |-> None]
  /\ exc = [r \in Reqs |-> None]
  /\ responses = [r \in Reqs |-> <<>>]
  /\ retval = [r \in Reqs |-> None]

\* one request arrives, at an edge with any uri_pattern
Init ==
  \/ /\ uri_pattern \in Patterns
     /\ InitWith({"r1"}, RequestLineCases)
  \/ /\ uri_pattern = Some(<<"/", "m">>)
     /\ InitWith({"r1"}, HeaderCases \cup EmptyHeaderCases)

\* ------------------------------------------------------------- greenlets
\* a greenlet that has finished, died of an exception, or was killed
Dead == {"done", "failed", "killed"}

\* a faulty variant: the lookup runs in a preemptive thread, at any moment
HubRunsAlways(t) == pc[t] # "idle"

\* where __call__ is blocked and the hub runs other greenlets: in
\* wsgi.input.read, in handoff, and after it returned
YieldPoints == {"read_body", "in_handoff", "returned"}

\* the hub may switch to request t's lookup greenlet or run a callback
HubRuns(t) == pc[t] \in YieldPoints

\* ------------------------------------------------------------- __call__
\* a faulty variant: no greenlet is spawned at the start of __call__
TriggerPtrLookupDeferred(r) ==
  /\ pc[r] = "call"
  /\ pc' = [pc EXCEPT ![r] = "validate"]
  /\ UNCHANGED <<uri_pattern, environ, wsgi_input, task, killPending, env,
                 handoffs, results, exc, responses, retval, outcome>>

\* log.request(environ); self._trigger_ptr_lookup(environ)
TriggerPtrLookup(r) ==
  /\ pc[r] = "call"
  /\ task' = [task EXCEPT ![r] = "spawned"]
  /\ environ' = [environ EXCEPT ![r].ptr_lookup_thread = Some(r)]
  /\ pc' = [pc EXCEPT ![r] = "validate"]
  /\ UNCHANGED <<uri_pattern, wsgi_input, killPending, env, handoffs, results,
                 exc, responses, retval, outcome>>

\* a faulty variant: the validator's WSGIResponse is built but not raised
ValidateNotRaised(r) ==
  /\ pc[r] = "validate"
  /\ pc' = [pc EXCEPT ![r] = "get_envelope"]
  /\ UNCHANGED <<uri_pattern, environ, wsgi_input, task, killPending, env,
                 handoffs, results, exc, responses, retval, outcome>>

\* self._validate_request(environ)
Validate(r) ==
  /\ pc[r] = "validate"
  /\ LET raised == ValidateRequest(uri_pattern, environ[r])
     IN  IF raised # None
           THEN /\ exc' = [exc EXCEPT ![r] = raised]
                /\ pc' = [pc EXCEPT ![r] = "except_wsgi"]
           ELSE /\ exc' = exc
                /\ pc' = [pc EXCEPT ![r] = "get_envelope"]
  /\ UNCHANGED <<uri_pattern, environ, wsgi_input, task, killPending, env,
                 handoffs, results, responses, retval, outcome>>

\* _get_envelope up to the read of the body: the sender, the recipients,
\* Envelope(...), int(CONTENT_LENGTH)
GetEnvelope(r) ==
  /\ pc[r] = "get_envelope"
  /\ LET sender == GetSender(environ[r])
         recipients == GetRecipients(environ[r])
         content_length == ContentLength(environ[r])
     IN  IF ~sender.ok \/ ~recipients.ok
           THEN /\ exc' = [exc EXCEPT ![r] = Some(Fault("Incorrect padding"))]
                /\ pc' = [pc EXCEPT ![r] = "except_exc"]
                /\ env' = env
         ELSE IF ~content_length.ok
           THEN /\ exc' = [exc EXCEPT ![r] =
                             Some(Fault("invalid literal for int() with base 10"))]
                /\ pc' = [pc EXCEPT ![r] = "except_exc"]
                /\ env' = [env EXCEPT ![r] =
                             Some(Envelope(sender.bytes, recipients.rcpts))]
         ELSE /\ exc' = exc
              /\ pc' = [pc EXCEPT ![r] = "read_body"]
              /\ env' = [env EXCEPT ![r] =
                           Some(Envelope(sender.bytes, recipients.rcpts))]
  /\ UNCHANGED <<uri_pattern, environ, wsgi_input, task, killPending, handoffs,
                 results, responses, retval, outcome>>

\* data = environ['wsgi.input'].read(content_length); env.parse(data): the
\* parser takes the data or raises
ReadBody(r) ==
  /\ pc[r] = "read_body"
  /\ LET content_length == ContentLength(environ[r]).value
         n == IF content_length < wsgi_input[r].left
                THEN content_length ELSE wsgi_input[r].left
     IN  /\ wsgi_input' = [wsgi_input EXCEPT ![r] =
                             [left |-> @.left - n, reads |-> @.reads + 1]]
         /\ \E parsed \in BOOLEAN :
              IF parsed
                THEN /\ env' = [env EXCEPT ![r] =
                                  Some([Get(env[r], Envelope(<<>>, <<>>))
                                          EXCEPT !.message = Some(n)])]
                     /\ exc' = exc
                     /\ pc' = [pc EXCEPT ![r] = "add_extras"]
                ELSE /\ env' = env
                     /\ exc' = [exc EXCEPT ![r] = Some(Fault("parse error"))]
                     /\ pc' = [pc EXCEPT ![r] = "except_exc"]
  /\ UNCHANGED <<uri_pattern, environ, task, killPending, handoffs, results,
                 responses, retval, outcome>>

\* a faulty variant: a lookup that died of an error fails the request
AddEnvelopeExtrasStrict(r) ==
  /\ pc[r] = "add_extras"
  /\ IF task[r] = "failed"
       THEN /\ exc' = [exc EXCEPT ![r] = Some(Fault("lookup failed"))]
            /\ pc' = [pc EXCEPT ![r] = "except_exc"]
            /\ env' = env
       ELSE /\ exc' = exc
            /\ pc' = [pc EXCEPT ![r] = "enqueue"]
            /\ env' = [env EXCEPT ![r] =
                 Some([Get(env[r], Envelope(<<>>, <<>>)) EXCEPT !.client =
                   [ip |-> Some(Get(environ[r].REMOTE_ADDR, "unknown")),
                    host |-> environ[r].reverse_address,
                    name |-> Some(GetEhlo(environ[r])),
                    protocol |->
                      Some(ToUpper(Get(environ[r].url_scheme,
                                       <<"h", "t", "t", "p">>)))]])]
  /\ UNCHANGED <<uri_pattern, environ, wsgi_input, task, killPending, handoffs,
                 results, responses, retval, outcome>>

\* a faulty variant: the extras are attached once the lookup greenlet is dead, as
\* after a join
AddEnvelopeExtrasJoined(r) ==
  /\ pc[r] = "add_extras"
  /\ task[r] \in Dead
  /\ env' = [env EXCEPT ![r] =
       Some([Get(env[r], Envelope(<<>>, <<>>)) EXCEPT !.client =
         [ip |-> Some(Get(environ[r].REMOTE_ADDR, "unknown")),
          host |-> environ[r].reverse_address,
          name |-> Some(GetEhlo(environ[r])),
          protocol |->
            Some(ToUpper(Get(environ[r].url_scheme, <<"h", "t", "t", "p">>)))]])]
  /\ pc' = [pc EXCEPT ![r] = "enqueue"]
  /\ UNCHANGED <<uri_pattern, environ, wsgi_input, task, killPending, handoffs,
                 results, exc, responses, retval, outcome>>

\* _add_envelope_extras(environ, env)
AddEnvelopeExtras(r) ==
  /\ pc[r] = "add_extras"
  /\ env' = [env EXCEPT ![r] =
       Some([Get(env[r], Envelope(<<>>, <<>>)) EXCEPT !.client =
         [ip |-> Some(Get(environ[r].REMOTE_ADDR, "unknown")),
          host |-> environ[r].reverse_address,
          name |-> Some(GetEhlo(environ[r])),
          protocol |->
            Some(ToUpper(Get(environ[r].url_scheme, <<"h", "t", "t", "p">>)))]])]
  /\ pc' = [pc EXCEPT ![r] = "enqueue"]
  /\ UNCHANGED <<uri_pattern, environ, wsgi_input, task, killPending, handoffs,
                 results, exc, responses, retval, outcome>>

\* _enqueue_envelope: results = self.handoff(env) is called and blocks
HandoffBegin(r) ==
  /\ pc[r] = "enqueue"
  /\ handoffs' = [handoffs EXCEPT ![r] = @ + 1]
  /\ pc' = [pc EXCEPT ![r] = "in_handoff"]
  /\ UNCHANGED <<uri_pattern, environ, wsgi_input, task, killPending, env,
                 results, exc, responses, retval, outcome>>

\* a faulty variant: when handoff returns, client.host is brought up to date
\* with what the lookup has stored
HandoffReturnRefreshed(r) ==
  /\ pc[r] = "in_handoff"
  /\ \E res \in ResultLists :
       /\ results' = [results EXCEPT ![r] = Some(res)]
       /\ outcome' = [outcome EXCEPT ![r] =
                        IF res = <<>> THEN None ELSE Some(res[1][2])]
  /\ env' = [env EXCEPT ![r] =
               Some([Get(@, Envelope(<<>>, <<>>))
                       EXCEPT !.client.host = environ[r].reverse_address])]
  /\ pc' = [pc EXCEPT ![r] = "map_result"]
  /\ UNCHANGED <<uri_pattern, environ, wsgi_input, task, killPending,
                 handoffs, exc, responses, retval>>

\* handoff returns the queue's result list
HandoffReturn(r) ==
  /\ pc[r] = "in_handoff"
  /\ \E res \in ResultLists :
       /\ results' = [results EXCEPT ![r] = Some(res)]
       /\ outcome' = [outcome EXCEPT ![r] =
                        IF res = <<>> THEN None ELSE Some(res[1][2])]
  /\ pc' = [pc EXCEPT ![r] = "map_result"]
  /\ UNCHANGED <<uri_pattern, environ, wsgi_input, task, killPending, env,
                 handoffs, exc, responses, retval>>

\* handoff raises
HandoffRaise(r) ==
  /\ pc[r] = "in_handoff"
  /\ exc' = [exc EXCEPT ![r] = Some(Fault("handoff failed"))]
  /\ pc' = [pc EXCEPT ![r] = "except_exc"]
  /\ UNCHANGED <<uri_pattern, environ, wsgi_input, task, killPending, env,
                 handoffs, results, responses, retval, outcome>>

\* a faulty variant: a QueueError as the first result makes the handler call
\* handoff again
MapResultRetry(r) ==
  /\ pc[r] = "map_result"
  /\ LET raised == EnqueueResult(Get(results[r], <<>>))
     IN  IF outcome[r] = Some(QueueFailure)
           THEN exc' = exc /\ pc' = [pc EXCEPT ![r] = "enqueue"]
           ELSE /\ exc' = [exc EXCEPT ![r] = Some(raised)]
                /\ pc' = [pc EXCEPT ![r] =
                            IF raised.type = "WSGIResponse"
                              THEN "except_wsgi" ELSE "except_exc"]
  /\ results' = [results EXCEPT ![r] = None]
  /\ UNCHANGED <<uri_pattern, environ, wsgi_input, task, killPending, env,
                 handoffs, responses, retval, outcome>>

\* the rest of _enqueue_envelope: it always raises
MapResult(r) ==
  /\ pc[r] = "map_result"
  /\ LET raised == EnqueueResult(Get(results[r], <<>>))
     IN  /\ exc' = [exc EXCEPT ![r] = Some(raised)]
         /\ pc' = [pc EXCEPT ![r] =
                     IF raised.type = "WSGIResponse"
                       THEN "except_wsgi" ELSE "except_exc"]
  /\ results' = [results EXCEPT ![r] = None]
  /\ UNCHANGED <<uri_pattern, environ, wsgi_input, task, killPending, env,
                 handoffs, responses, retval, outcome>>

\* except WSGIResponse as res: start_response(res.status, res.headers);
\* log.response(...); return res.data
RespondWSGI(r) ==
  /\ pc[r] = "except_wsgi"
  /\ LET res == Get(exc[r], Fault(""))
     IN  /\ responses' = [responses EXCEPT ![r] =
                            Append(@, [status |-> res.status,
                                       headers |-> res.headers])]
         /\ retval' = [retval EXCEPT ![r] = Some(res.data)]
  /\ exc' = [exc EXCEPT ![r] = None]
  /\ pc' = [pc EXCEPT ![r] = "finally"]
  /\ UNCHANGED <<uri_pattern, environ, wsgi_input, task, killPending, env,
                 handoffs, results, outcome>>

\* a faulty variant: the fault's body is returned and start_response never called
RespondFaultSilent(r) ==
  /\ pc[r] = "except_exc"
  /\ retval' = [retval EXCEPT ![r] = Some(<<Get(exc[r], Fault("")).msg \o "\n">>)]
  /\ exc' = [exc EXCEPT ![r] = None]
  /\ pc' = [pc EXCEPT ![r] = "finally"]
  /\ UNCHANGED <<uri_pattern, environ, wsgi_input, task, killPending, env,
                 handoffs, results, responses, outcome>>

\* a faulty variant: the body of the 500 response is a fixed text, not str(exc)
RespondFaultGeneric(r) ==
  /\ pc[r] = "except_exc"
  /\ LET msg == "Internal Server Error\n"
         headers == <<[name |-> "Content-Length", length |-> Len(msg)],
                      [name |-> "Content-Type", value |-> "text/plain"]>>
     IN  /\ responses' = [responses EXCEPT ![r] =
                            Append(@, [status |-> "500 Internal Server Error",
                                       headers |-> headers])]
         /\ retval' = [retval EXCEPT ![r] = Some(<<msg>>)]
  /\ exc' = [exc EXCEPT ![r] = None]
  /\ pc' = [pc EXCEPT ![r] = "finally"]
  /\ UNCHANGED <<uri_pattern, environ, wsgi_input, task, killPending, env,
                 handoffs, results, outcome>>

\* except Exception as exc: the 500 response whose body is str(exc) and a
\* line feed
RespondFault(r) ==
  /\ pc[r] = "except_exc"
  /\ LET msg == Get(exc[r], Fault("")).msg \o "\n"
         headers == <<[name |-> "Content-Length", length |-> Len(msg)],
                      [name |-> "Content-Type", value |-> "text/plain"]>>
     IN  /\ responses' = [responses EXCEPT ![r] =
                            Append(@, [status |-> "500 Internal Server Error",
                                       headers |-> headers])]
         /\ retval' = [retval EXCEPT ![r] = Some(<<msg>>)]
  /\ exc' = [exc EXCEPT ![r] = None]
  /\ pc' = [pc EXCEPT ![r] = "finally"]
  /\ UNCHANGED <<uri_pattern, environ, wsgi_input, task, killPending, env,
                 handoffs, results, outcome>>

\* a faulty variant: kill(block=True), which returns once the greenlet is dead
KillBlock(t) ==
  /\ task[t] # "querying"
  /\ task' = [task EXCEPT ![t] = IF @ = "spawned" THEN "killed" ELSE @]
  /\ killPending' = killPending

\* gevent's Greenlet.kill(block=False) on greenlet t: nothing for a dead
\* greenlet; a greenlet that has not started has its start cancelled and is
\* dead at once; for a started one the kill is queued as a hub callback and
\* kill returns
KillNoBlock(t) ==
  /\ task' = [task EXCEPT ![t] = IF @ = "spawned" THEN "killed" ELSE @]
  /\ killPending' = [killPending EXCEPT ![t] = task[t] = "querying"]

\* a faulty variant: __call__ returns without the finally clause
KillLookupSkipped(r) ==
  /\ pc[r] = "finally"
  /\ pc' = [pc EXCEPT ![r] = "returned"]
  /\ UNCHANGED <<uri_pattern, environ, wsgi_input, task, killPending, env,
                 handoffs, results, exc, responses, retval, outcome>>

\* finally: environ['slimta.ptr_lookup_thread'].kill(block=False); then
\* __call__ returns
KillLookup(r) ==
  /\ pc[r] = "finally"
  /\ KillNoBlock(Get(environ[r].ptr_lookup_thread, r))
  /\ pc' = [pc EXCEPT ![r] = "returned"]
  /\ UNCHANGED <<uri_pattern, environ, wsgi_input, env, handoffs, results,
                 exc, responses, retval, outcome>>

\* ------------------------------------------------- the lookup greenlet
\* _ptr_lookup starts: ip, ptraddr, and resolver.query blocks on the network
PtrLookupStart(t) ==
  /\ task[t] = "spawned"
  /\ HubRuns(t)
  /\ task' = [task EXCEPT ![t] = "querying"]
  /\ UNCHANGED <<uri_pattern, environ, wsgi_input, pc, killPending, env,
                 handoffs, results, exc, responses, retval, outcome>>

\* a faulty variant: the name is stored in a slot all requests share
PtrLookupFinishShared(t) ==
  /\ task[t] = "querying"
  /\ HubRuns(t)
  /\ LET ptraddr == FromAddress(Get(environ[t].REMOTE_ADDR, "0.0.0.0"))
     IN  \E rec \in PtrRecords(ptraddr) :
           environ' = [r \in Reqs |->
                         [environ[r] EXCEPT !.reverse_address = Some(rec)]]
  /\ task' = [task EXCEPT ![t] = "done"]
  /\ UNCHANGED <<uri_pattern, wsgi_input, pc, killPending, env, handoffs,
                 results, exc, responses, retval, outcome>>

\* a faulty variant: the greenlet stores the name in the envelope as well, if there is
\* one by then
PtrLookupFinishIntoEnvelope(t) ==
  /\ task[t] = "querying"
  /\ HubRuns(t)
  /\ LET ptraddr == FromAddress(Get(environ[t].REMOTE_ADDR, "0.0.0.0"))
     IN  \E rec \in PtrRecords(ptraddr) :
           /\ environ' = [environ EXCEPT ![t].reverse_address = Some(rec)]
           /\ env' = [env EXCEPT ![t] =
                        IF @ = None THEN @
                        ELSE Some([Get(@, Envelope(<<>>, <<>>))
                                     EXCEPT !.client.host = Some(rec)])]
  /\ task' = [task EXCEPT ![t] = "done"]
  /\ UNCHANGED <<uri_pattern, wsgi_input, pc, killPending, handoffs, results,
                 exc, responses, retval, outcome>>

\* resolver.query comes back and _ptr_lookup runs to its end
PtrLookupFinish(t) ==
  /\ task[t] = "querying"
  /\ HubRuns(t)
  /\ LET ip == Get(environ[t].REMOTE_ADDR, "0.0.0.0")
         ptraddr == FromAddress(ip)
     IN  \E q \in QueryOutcomes(ptraddr) :
           LET answers == IF q.kind = "DNSException" THEN <<>> ELSE q.answers
           IN  IF q.kind = "error"
                 THEN /\ task' = [task EXCEPT ![t] = "failed"]
                      /\ environ' = environ
               ELSE IF answers = <<>>
                 THEN /\ task' = [task EXCEPT ![t] = "done"]
                      /\ environ' = environ
               ELSE /\ task' = [task EXCEPT ![t] = "done"]
                    /\ environ' = [environ EXCEPT ![t].reverse_address =
                                     Some(answers[1])]
  /\ UNCHANGED <<uri_pattern, wsgi_input, pc, killPending, env, handoffs,
                 results, exc, responses, retval, outcome>>

\* the hub runs the queued kill: GreenletExit is thrown into the greenlet
\* unless it is dead by now
DeliverKill(t) ==
  /\ killPending[t]
  /\ HubRuns(t)
  /\ killPending' = [killPending EXCEPT ![t] = FALSE]
  /\ task' = [task EXCEPT ![t] = IF @ \in Dead THEN @ ELSE "killed"]
  /\ UNCHANGED <<uri_pattern, environ, wsgi_input, pc, env, handoffs, results,
                 exc, responses, retval, outcome>>

\* ------------------------------------------------------------------ spec
\* the steps of __call__ that run without blocking
Compute(r) ==
  \/ TriggerPtrLookup(r)
  \/ Validate(r)
  \/ GetEnvelope(r)
  \/ AddEnvelopeExtras(r)
  \/ HandoffBegin(r)
  \/ MapResult(r)
  \/ RespondWSGI(r)
  \/ RespondFault(r)
  \/ KillLookup(r)

\* the steps that wait for the client or the queue
Blocking(r) == ReadBody(r) \/ HandoffReturn(r) \/ HandoffRaise(r)

Lookup(t) == PtrLookupStart(t) \/ PtrLookupFinish(t) \/ DeliverKill(t)

Next == \E r \in Reqs : Compute(r) \/ Blocking(r) \/ Lookup(r)

Spec == Init /\ [][Next]_vars

\* one request of each path through __call__: accepted by the validator,
\* rejected for its method or its content type, failing in _get_envelope
PathCases ==
  {Typical,
   [Typical EXCEPT !.REQUEST_METHOD = <<"G", "E", "T">>],
   [Typical EXCEPT !.CONTENT_TYPE = Some("text/plain")],
   [Typical EXCEPT !.HTTP_X_ENVELOPE_SENDER = Some(<<"Q", "U", "J">>)],
   [Typical EXCEPT !.CONTENT_LENGTH = Some(<<"x">>)]}

PathInit ==
  /\ uri_pattern = Some(<<"/", "m">>)
  /\ InitWith({"r1"}, PathCases)

\* the interpreter keeps running a handler that is not blocked, and the client
\* sends the body it announced; nothing is assumed of the queue, the resolver
\* or the hub's delivery of a kill
FairSpec ==
  /\ PathInit
  /\ [][Next]_vars
  /\ \A r \in Reqs : WF_vars(Compute(r)) /\ WF_vars(ReadBody(r))

\* submissions from two client addresses, one of them with a method the
\* validator refuses
TwoClients ==
  {Typical,
   [Typical EXCEPT !.REMOTE_ADDR = Some("198.51.100.9")],
   [Typical EXCEPT !.REMOTE_ADDR = Some("198.51.100.9"),
                   !.REQUEST_METHOD = <<"G", "E", "T">>]}

\* the server runs __call__ for two requests at once, one greenlet each, on
\* one WsgiEdge; the clients differ in their address and send the whole body.
\* The steps of the two handlers interleave freely, which includes every
\* schedule of the hub
ConcurrentInit ==
  /\ uri_pattern = Some(<<"/", "m">>)
  /\ InitWith(Reqs, TwoClients)
  /\ environ["r1"] = Typical
  /\ environ["r2"].REMOTE_ADDR # environ["r1"].REMOTE_ADDR
  /\ \A r \in Reqs : wsgi_input[r].left = MaxBody

ConcurrentSpec == ConcurrentInit /\ [][Next]_vars

\* ---------------------------------------------------------------- claims
\* what the claims read off a request
Arrived == {r \in Reqs : pc[r] # "idle"}

Returned(r) == pc[r] = "returned"

\* the one response of a request that has responded
Response(r) == responses[r][1]

Status(r) == Response(r).status

\* the response carries the diagnostic header X-Smtp-Reply with this code
CarriesReply(r, code) ==
  /\ Len(Response(r).headers) = 1
  /\ Response(r).headers[1].name = "X-Smtp-Reply"
  /\ Response(r).headers[1].code = code

Host(r) == Get(env[r], Envelope(<<>>, <<>>)).client.host

\* the lookup has run to its end and stored a PTR record
LookupSucceeded(r) ==
  task[r] = "done" /\ environ[r].reverse_address # None

\* no pattern is configured, or the path matches it
PathPasses(r) ==
  PatternConfigured(uri_pattern) =>
    ReMatch(Get(uri_pattern, <<>>), Get(environ[r].PATH_INFO, <<>>))

MethodIsPost(r) == ToUpper(environ[r].REQUEST_METHOD) = POST

ContentTypeRefused(r) ==
  environ[r].CONTENT_TYPE # None
  /\ Get(environ[r].CONTENT_TYPE, "") # "message/rfc822"

\* the status the table of the status translator gives a relay's reply code
RelayStatus(code) ==
  IF code # <<>> /\ code[1] = "2" THEN "200 OK"
  ELSE IF code # <<>> /\ code[1] = "4" THEN "503 Service Unavailable"
  ELSE IF code = <<"5", "3", "5">> THEN "401 Unauthorized"
  ELSE "500 Internal Server Error"

\* C1: once handoff has returned a non-empty list, the response follows its
\* first result: a queue id gives 200 with reply code 250, a RelayError gives
\* 200 / 503 / 401 / 500 by its reply code (2.., 4.., 535, anything else) and
\* the X-Smtp-Reply header carries the relay's own code and message
C1_OutcomeMapping ==
  \A r \in Reqs :
    (pc[r] \in {"finally", "returned"} /\ outcome[r] # None) =>
      LET o == Get(outcome[r], Accepted)
      IN  /\ Len(responses[r]) = 1
          /\ o.type = "id" =>
               Status(r) = "200 OK" /\ CarriesReply(r, <<"2", "5", "0">>)
          /\ o.type = "RelayError" =>
               /\ Status(r) = RelayStatus(o.reply.code)
               /\ CarriesReply(r, o.reply.code)
               /\ Response(r).headers[1].message = o.reply.message

\* a relay failure 450 was answered 503, the 450 in the header
C1_Witness ==
  \E r \in Reqs :
    /\ Returned(r)
    /\ outcome[r] = Some(RelayFailure(Reply(<<"4", "5", "0">>, "4.2.0 Mailbox busy")))
    /\ Status(r) = "503 Service Unavailable"
    /\ CarriesReply(r, <<"4", "5", "0">>)

\* C2 as stated: a QueueError as the first result gives 503 Service
\* Unavailable with reply code 550
C2_QueueFailure503 ==
  \A r \in Reqs :
    (Returned(r) /\ outcome[r] = Some(QueueFailure)) =>
      Status(r) = "503 Service Unavailable" /\ CarriesReply(r, <<"5", "5", "0">>)

\* C2 amended: a QueueError as the first result gives 500 Internal Server
\* Error, the status of every reply code 5xx but 535, with reply code 550
C2_QueueFailure500 ==
  \A r \in Reqs :
    (pc[r] \in {"finally", "returned"} /\ outcome[r] = Some(QueueFailure)) =>
      /\ Len(responses[r]) = 1
      /\ Status(r) = "500 Internal Server Error"
      /\ CarriesReply(r, <<"5", "5", "0">>)
      /\ Response(r).headers[1].message = "5.6.0 Error queuing message"

C2_Witness ==
  \E r \in Reqs :
    /\ Returned(r)
    /\ outcome[r] = Some(QueueFailure)
    /\ Status(r) = "500 Internal Server Error"

\* C3 as stated: a request whose method is not POST (in any case of the
\* letters) is answered 405 with Allow: POST, whatever its path
C3_NotPostIs405 ==
  \A r \in Arrived :
    (Returned(r) /\ ~MethodIsPost(r)) =>
      /\ Status(r) = "405 Method Not Allowed"
      /\ Response(r).headers = <<[name |-> "Allow", value |-> "POST"]>>

\* C3 amended: a request whose method, in upper case, is not POST and whose
\* path is not refused (no pattern configured, or the path matches it) is
\* answered 405 with Allow: POST, whatever its content type
C3_NotPostIs405OnPath ==
  \A r \in Arrived :
    (pc[r] \in {"finally", "returned"} /\ ~MethodIsPost(r) /\ PathPasses(r)) =>
      /\ Len(responses[r]) = 1
      /\ Status(r) = "405 Method Not Allowed"
      /\ Response(r).headers = <<[name |-> "Allow", value |-> "POST"]>>

\* a GET with a content type that is not the mail type, answered 405
C3_Witness ==
  \E r \in Arrived :
    /\ Returned(r)
    /\ environ[r].REQUEST_METHOD = <<"G", "E", "T">>
    /\ ContentTypeRefused(r)
    /\ PatternConfigured(uri_pattern)
    /\ Status(r) = "405 Method Not Allowed"

\* C4 as stated: a request with a content type that is not message/rfc822 is
\* answered 415, whatever its path and method
C4_WrongTypeIs415 ==
  \A r \in Arrived :
    (Returned(r) /\ ContentTypeRefused(r)) =>
      Status(r) = "415 Unsupported Media Type"

\* C4 amended: a request with a content type that is not message/rfc822,
\* whose path is not refused and whose method, in upper case, is POST, is
\* answered 415
C4_WrongTypeIs415OnPost ==
  \A r \in Arrived :
    (pc[r] \in {"finally", "returned"} /\ ContentTypeRefused(r)
       /\ PathPasses(r) /\ MethodIsPost(r)) =>
      /\ Len(responses[r]) = 1
      /\ Status(r) = "415 Unsupported Media Type"

C4_Witness ==
  \E r \in Arrived :
    /\ Returned(r)
    /\ environ[r].CONTENT_TYPE = Some("text/plain")
    /\ environ[r].REQUEST_METHOD = <<"p", "o", "s", "t">>
    /\ Status(r) = "415 Unsupported Media Type"

\* C5: start_response is called exactly once per invocation of the handler:
\* never twice, not before an except clause is reached, and once by the time
\* the handler returns something
C5_OneResponse ==
  \A r \in Arrived :
    /\ Len(responses[r]) <= 1
    /\ pc[r] \in {"finally", "returned"} <=> Len(responses[r]) = 1
    /\ Returned(r) => retval[r] # None

\* the fault path has returned with its one response
C5_Witness ==
  \E r \in Arrived :
    /\ Returned(r)
    /\ Len(responses[r]) = 1
    /\ Status(r) = "500 Internal Server Error"
    /\ retval[r] = Some(<<"parse error\n">>)

\* C6 as stated: when the handler has returned, the lookup greenlet is dead
C6_DeadOnReturn ==
  \A r \in Arrived : Returned(r) => task[r] \in Dead

\* C6 amended: when the handler has returned, the lookup greenlet is dead or
\* its kill is queued on the hub; until the hub delivers the kill the greenlet
\* is alive and may still run
C6_KillIssuedOnReturn ==
  \A r \in Arrived : Returned(r) => (task[r] \in Dead \/ killPending[r])

\* the handler has returned from a fault and the greenlet still waits for
\* the resolver, its kill queued
C6_Witness ==
  \E r \in Arrived :
    /\ Returned(r)
    /\ Status(r) = "500 Internal Server Error"
    /\ task[r] = "querying"
    /\ killPending[r]

\* C7: the handler never waits for the lookup: wherever it is not blocked on
\* the client or the queue one of its steps is enabled, whatever the lookup
\* greenlet has done; from there it reaches handoff or returns; and once
\* handoff has returned it responds and returns, although nothing makes the
\* lookup ever finish
C7_NoWaitOnLookup ==
  \A r \in Reqs :
    /\ [](pc[r] \notin {"idle", "read_body", "in_handoff", "returned"}
            => ENABLED Compute(r))
    /\ (pc[r] = "call") ~> (pc[r] \in {"in_handoff", "returned"})
    /\ (pc[r] = "map_result") ~> (Returned(r) /\ Len(responses[r]) = 1)

\* the handler went through handoff and returned while the lookup had not
\* even started
C7_Witness ==
  \E r \in Arrived :
    /\ Returned(r)
    /\ handoffs[r] = 1
    /\ task[r] = "killed"
    /\ environ[r].reverse_address = None
    /\ Status(r) = "200 OK"

\* C8: client.host is written by _add_envelope_extras alone, as a copy of
\* what the lookup has stored by then; so it holds a name only if the lookup
\* had finished with a PTR record at that moment, and holds None if the
\* lookup had failed, found nothing or not finished
C8_HostOnlyFromFinishedLookup ==
  /\ [](\A r \in Reqs :
          /\ Host(r) # None =>
               /\ task[r] = "done"
               /\ environ[r].reverse_address = Host(r)
               /\ Host(r) \in
                    {Some(rec) : rec \in PtrRecords(
                       FromAddress(Get(environ[r].REMOTE_ADDR, "0.0.0.0")))}
          /\ pc[r] = "enqueue" => (Host(r) # None <=> LookupSucceeded(r)))
  /\ [][\A r \in Reqs :
          Host(r)' # Host(r) =>
            /\ pc[r] = "add_extras"
            /\ pc'[r] = "enqueue"
            /\ LookupSucceeded(r)]_vars

\* the extras were attached after the lookup had stored a name
C8_Witness ==
  \E r \in Arrived :
    /\ pc[r] = "enqueue"
    /\ Host(r) = Some([of |-> FromAddress("192.0.2.7"), rr |-> "b"])

\* C9: when the call of handoff begins, client.host of the envelope passed
\* is present exactly if the lookup has finished with a PTR record, and in
\* both cases the request enters handoff with no exception and no response
C9_HostAtHandoff ==
  [][\A r \in Reqs :
       (pc[r] = "enqueue" /\ pc'[r] # "enqueue") =>
         /\ pc'[r] = "in_handoff"
         /\ handoffs'[r] = 1
         /\ Host(r)' # None <=> LookupSucceeded(r)
         /\ LookupSucceeded(r) => Host(r)' = environ[r].reverse_address
         /\ exc'[r] = None
         /\ responses'[r] = <<>>]_vars

\* handoff was entered with a host name in the envelope
C9_Witness ==
  \E r \in Arrived :
    /\ pc[r] = "in_handoff"
    /\ handoffs[r] = 1
    /\ Host(r) # None
    /\ task[r] = "done"

\* C10: a request the validator rejects goes from the validator to the
\* except clause and out: no envelope is built, wsgi.input is never read and
\* handoff is never called, and the response is the validator's
C10_RejectedGoesToResponse ==
  \A r \in Arrived :
    LET raised == ValidateRequest(uri_pattern, environ[r])
    IN  raised # None =>
          /\ pc[r] \in {"call", "validate", "except_wsgi", "finally", "returned"}
          /\ env[r] = None
          /\ wsgi_input[r].reads = 0
          /\ handoffs[r] = 0
          /\ pc[r] \in {"finally", "returned"} =>
               /\ Len(responses[r]) = 1
               /\ Status(r) = Get(raised, Fault("")).status
               /\ Status(r) \in {"404 Not Found", "405 Method Not Allowed",
                                 "415 Unsupported Media Type"}

\* a 404 was returned with the body unread
C10_Witness ==
  \E r \in Arrived :
    /\ Returned(r)
    /\ Status(r) = "404 Not Found"
    /\ wsgi_input[r] = [left |-> 1, reads |-> 0]
    /\ env[r] = None

\* the response of the except Exception clause for a failure whose str() is
\* text: 500, the length and type of the body, and the body text and a line feed
FaultResponse(text) ==
  [status |-> "500 Internal Server Error",
   headers |-> <<[name |-> "Content-Length", length |-> Len(text \o "\n")],
                 [name |-> "Content-Type", value |-> "text/plain"]>>]

\* the request's one response is that of a failure with this text, body too
FaultAnswered(r, text) ==
  /\ responses[r] = <<FaultResponse(text)>>
  /\ retval[r] = Some(<<text \o "\n">>)

\* C11: a failure past the validator is answered 500 with str(exc) and a line
\* feed as the body, the handler returns and the kill is issued: a sender or
\* recipient segment that does not decode, a content length that is not a
\* number, a parser failure, handoff raising and an empty result list all put
\* the handler in the except Exception clause, which calls start_response
\* once and moves on to the finally clause, which issues the kill and returns
C11_FaultGives500 ==
  /\ [](\A r \in Arrived :
          LET sender == GetSender(environ[r])
              recipients == GetRecipients(environ[r])
              content_length == ContentLength(environ[r])
          IN  /\ (/\ pc[r] \in {"finally", "returned"}
                  /\ ValidateRequest(uri_pattern, environ[r]) = None
                  /\ ~(sender.ok /\ recipients.ok /\ content_length.ok)) =>
                   FaultAnswered(r,
                     IF sender.ok /\ recipients.ok
                       THEN "invalid literal for int() with base 10"
                       ELSE "Incorrect padding")
              /\ pc[r] = "except_exc" =>
                   /\ exc[r] # None
                   /\ Get(exc[r], Fault("")).type = "Exception"
                   /\ responses[r] = <<>>
              /\ Returned(r) =>
                   /\ exc[r] = None
                   /\ task[r] \in Dead \/ killPending[r])
  /\ [][\A r \in Reqs :
          /\ (exc'[r] # exc[r] /\ exc'[r] # None
                /\ Get(exc'[r], Fault("")).type = "Exception") =>
               /\ pc[r] \in {"get_envelope", "read_body", "in_handoff",
                              "map_result"}
               /\ pc'[r] = "except_exc"
          /\ (pc[r] = "except_exc" /\ pc'[r] # "except_exc") =>
               /\ pc'[r] = "finally"
               /\ responses'[r] = <<FaultResponse(Get(exc[r], Fault("")).msg)>>
               /\ retval'[r] = Some(<<Get(exc[r], Fault("")).msg \o "\n">>)
               /\ exc'[r] = None
          /\ (pc[r] = "finally" /\ pc'[r] # "finally") =>
               /\ pc'[r] = "returned"
               /\ task'[r] \in Dead \/ killPending'[r]
               /\ responses'[r] = responses[r]
               /\ retval'[r] = retval[r]]_vars

\* a recipient segment that does not decode was answered 500, and so was a
\* raising handoff, with the kill issued
C11_Witness ==
  \E r \in Arrived :
    /\ Returned(r)
    /\ ~GetRecipients(environ[r]).ok
    /\ FaultAnswered(r, "Incorrect padding")
    /\ task[r] \in Dead \/ killPending[r]

\* the header is missing or empty
Blank(header) == header \in {None, Some(<<>>)}

\* C12: for a request the validator passes, a missing or empty sender header
\* decodes to the empty sender and a missing or empty recipient header gives
\* no recipients; neither raises, so the request is in the except Exception
\* clause for a decoding failure only if the other header fails to decode; the
\* envelope carries the empty sender or the empty recipient list into
\* handoff, and a queue id as the first result is answered 200 with reply 250
C12_BlankHeadersAreEmpty ==
  \A r \in Arrived :
    LET e == environ[r]
        sender == GetSender(e)
        recipients == GetRecipients(e)
        envelope == Get(env[r], Envelope(<<0>>, <<<<0>>>>))
    IN  (ValidateRequest(uri_pattern, e) = None
           /\ (Blank(e.HTTP_X_ENVELOPE_SENDER)
                 \/ Blank(e.HTTP_X_ENVELOPE_RECIPIENT))) =>
          /\ Blank(e.HTTP_X_ENVELOPE_SENDER) =>
               /\ sender = [ok |-> TRUE, bytes |-> <<>>]
               /\ env[r] # None => envelope.sender = <<>>
          /\ Blank(e.HTTP_X_ENVELOPE_RECIPIENT) =>
               /\ recipients = [ok |-> TRUE, rcpts |-> <<>>]
               /\ env[r] # None => envelope.recipients = <<>>
          /\ (exc[r] = Some(Fault("Incorrect padding"))
                \/ (pc[r] \in {"finally", "returned"}
                      /\ FaultAnswered(r, "Incorrect padding"))) =>
               ~(sender.ok /\ recipients.ok)
          /\ (sender.ok /\ recipients.ok /\ ContentLength(e).ok
                /\ pc[r] \notin {"call", "validate", "get_envelope"}) =>
               env[r] # None
          /\ pc[r] \in {"in_handoff", "map_result"} =>
               env[r] # None /\ handoffs[r] = 1
          /\ (pc[r] \in {"finally", "returned"}
                /\ outcome[r] = Some(Accepted)) =>
               /\ Len(responses[r]) = 1
               /\ Status(r) = "200 OK"
               /\ CarriesReply(r, <<"2", "5", "0">>)

\* a request with an empty sender header and no recipient header went
\* through handoff with an empty envelope and was answered 200
C12_Witness ==
  \E r \in Arrived :
    /\ Returned(r)
    /\ environ[r].HTTP_X_ENVELOPE_SENDER = Some(<<>>)
    /\ environ[r].HTTP_X_ENVELOPE_RECIPIENT = None
    /\ Get(env[r], Envelope(<<0>>, <<<<0>>>>)).sender = <<>>
    /\ Get(env[r], Envelope(<<0>>, <<<<0>>>>)).recipients = <<>>
    /\ outcome[r] = Some(Accepted)
    /\ Status(r) = "200 OK"

\* the validator refuses the request
Rejected(r) == ValidateRequest(uri_pattern, environ[r]) # None

\* C13 as stated: the lookup greenlet is spawned only once the validator has
\* passed, and a request the validator refuses never has one
C13_SpawnedOnlyOnPass ==
  \A r \in Arrived :
    /\ task[r] # "none" => pc[r] \notin {"call", "validate"}
    /\ Rejected(r) => task[r] = "none"

\* C13 amended: the lookup greenlet is spawned by the first step of __call__,
\* before the validator runs, for every request; environ holds its handle from
\* then on. For a request the validator refuses the greenlet is spawned all
\* the same: the handler does not block on the way to its return, so the
\* greenlet never gets to run, stores nothing, and is killed unstarted by the
\* finally clause
C13_SpawnedBeforeValidation ==
  \A r \in Arrived :
    /\ pc[r] = "call" <=> task[r] = "none"
    /\ pc[r] # "call" => environ[r].ptr_lookup_thread = Some(r)
    /\ Rejected(r) =>
         /\ task[r] \in {"none", "spawned", "killed"}
         /\ task[r] = "killed" <=> Returned(r)
         /\ ~killPending[r]
         /\ environ[r].reverse_address = None

\* the validator has refused a request whose greenlet is spawned
C13_Witness ==
  \E r \in Arrived :
    /\ pc[r] = "except_wsgi"
    /\ Rejected(r)
    /\ Get(exc[r], Fault("")).status = "405 Method Not Allowed"
    /\ task[r] = "spawned"

\* the decision the claim gives the validator
Decision(r) ==
  IF ~PathPasses(r) THEN "404 Not Found"
  ELSE IF ~MethodIsPost(r) THEN "405 Method Not Allowed"
  ELSE IF ContentTypeRefused(r) THEN "415 Unsupported Media Type"
  ELSE "valid"

\* C14: the step of the validator is decided by the pattern, the path, the
\* method and the content type alone, in this order: 404 for a path the
\* configured pattern does not match, else 405 for a method that is not POST
\* in upper case, else 415 for a content type that is present and differs from
\* message/rfc822, else the handler goes on; the step changes nothing but the
\* handler's position and the exception raised, and the response of a refused
\* request carries the status decided
C14_ValidatorPrecedence ==
  /\ [][\A r \in Reqs :
          (pc[r] = "validate" /\ pc'[r] # "validate") =>
            /\ Decision(r) = "valid" =>
                 pc'[r] = "get_envelope" /\ exc'[r] = None
            /\ Decision(r) # "valid" =>
                 /\ pc'[r] = "except_wsgi"
                 /\ exc'[r] # None
                 /\ Get(exc'[r], Fault("")).type = "WSGIResponse"
                 /\ Get(exc'[r], Fault("")).status = Decision(r)
            /\ <<uri_pattern, environ, wsgi_input, task, killPending, env,
                 handoffs, results, responses, retval, outcome>>'
                 = <<uri_pattern, environ, wsgi_input, task, killPending, env,
                     handoffs, results, responses, retval, outcome>>]_vars
  /\ [](\A r \in Arrived :
          pc[r] \in {"finally", "returned"} =>
            /\ Len(responses[r]) = 1
            /\ Decision(r) # "valid" => Status(r) = Decision(r)
            /\ Decision(r) = "valid" =>
                 Status(r) \notin {"404 Not Found", "405 Method Not Allowed",
                                   "415 Unsupported Media Type"})

\* a post in lower case with no content type, on a matching path, has passed
\* the validator
C14_Witness ==
  \E r \in Arrived :
    /\ pc[r] = "get_envelope"
    /\ PatternConfigured(uri_pattern)
    /\ environ[r].REQUEST_METHOD = <<"p", "o", "s", "t">>
    /\ environ[r].CONTENT_TYPE = None
    /\ exc[r] = None

\* C15: handoff is called at most once for a request; while the call is in
\* progress nothing has been passed to start_response and nothing returned;
\* the call begins with no response emitted; and when a request that called
\* handoff emits its response, the call is over: it has returned its results
\* or raised, and the handler is in one of its except clauses
C15_ResponseAfterHandoff ==
  /\ [](\A r \in Reqs :
          /\ handoffs[r] <= 1
          /\ pc[r] = "in_handoff" =>
               /\ handoffs[r] = 1
               /\ responses[r] = <<>>
               /\ retval[r] = None
          /\ (responses[r] # <<>> /\ handoffs[r] = 1) =>
               pc[r] \in {"finally", "returned"})
  /\ [][\A r \in Reqs :
          /\ handoffs'[r] # handoffs[r] =>
               /\ handoffs[r] = 0 /\ handoffs'[r] = 1
               /\ pc[r] = "enqueue" /\ pc'[r] = "in_handoff"
               /\ responses'[r] = <<>>
          /\ (responses'[r] # responses[r] /\ handoffs[r] = 1) =>
               /\ pc[r] \in {"except_wsgi", "except_exc"}
               /\ outcome[r] # None
                    \/ exc[r] \in {Some(Fault("handoff failed")),
                                   Some(Fault("list index out of range"))}
          /\ (pc[r] = "in_handoff" /\ pc'[r] # "in_handoff") =>
               /\ pc'[r] \in {"map_result", "except_exc"}
               /\ responses'[r] = <<>>]_vars

\* the one call of handoff returned a result and the response followed
C15_Witness ==
  \E r \in Arrived :
    /\ Returned(r)
    /\ handoffs[r] = 1
    /\ outcome[r] # None
    /\ Len(responses[r]) = 1

\* the result list cut to its first entry
FirstOnly(res) == IF res = <<>> THEN res ELSE <<res[1]>>

\* an accepted message followed by a recipient the relay refuses for now
AcceptedThenRefused ==
  <<<<"envelope", Accepted>>,
    <<"envelope", RelayFailure(Reply(<<"4", "5", "0">>, "4.2.0 Mailbox busy"))>>>>

\* C16: the translation of a result list is that of its first entry alone:
\* the step after handoff raises what it would raise for the list cut to its
\* first entry, for every list handoff can return, so a queue id followed by
\* failures is 200 with reply 250; and the response emitted is the one of the
\* first result, status, header and body
C16_FirstResultOnly ==
  /\ [][\A r \in Reqs :
          (pc[r] = "map_result" /\ pc'[r] # "map_result") =>
            LET res == Get(results[r], <<>>)
            IN  /\ exc'[r] = Some(EnqueueResult(FirstOnly(res)))
                /\ (res # <<>> /\ res[1][2] = Accepted) =>
                     /\ pc'[r] = "except_wsgi"
                     /\ Get(exc'[r], Fault("")).status = "200 OK"
                     /\ Get(exc'[r], Fault("")).headers =
                          <<SmtpReplyHeader(
                              Reply(<<"2", "5", "0">>,
                                    "2.6.0 Message accepted for delivery"))>>]_vars
  /\ [](\A r \in Reqs :
          (pc[r] \in {"finally", "returned"} /\ outcome[r] # None) =>
            LET raised ==
                  EnqueueResult(<<<<"envelope", Get(outcome[r], Accepted)>>>>)
            IN  /\ responses[r] = <<[status |-> raised.status,
                                     headers |-> raised.headers]>>
                /\ retval[r] = Some(raised.data))

\* handoff has returned a queue id followed by a relay failure, which
\* translates to 200 with reply 250
C16_Witness ==
  \E r \in Arrived :
    /\ pc[r] = "map_result"
    /\ results[r] = Some(AcceptedThenRefused)
    /\ outcome[r] = Some(Accepted)
    /\ EnqueueResult(AcceptedThenRefused).status = "200 OK"
    /\ EnqueueResult(AcceptedThenRefused).headers[1].code = <<"2", "5", "0">>

\* C17: the kill is issued by the one step that leaves the finally clause,
\* which every request takes on its way to returning, after its one response
\* was emitted, and takes once, as nothing follows the return. The step can
\* be taken whatever the greenlet is doing: an unstarted greenlet dies, a
\* started one has the kill queued and is left as it is, a dead one is left
\* alone, and in each case no exception is raised and the response and the
\* value returned stay as they were
C17_KillOnceAfterResponse ==
  /\ [](\A r \in Arrived :
          /\ pc[r] = "finally" =>
               /\ ENABLED KillLookup(r)
               /\ Len(responses[r]) = 1
               /\ retval[r] # None
               /\ ~killPending[r]
          /\ Returned(r) => Len(responses[r]) = 1 /\ exc[r] = None)
  /\ [][\A r \in Reqs :
          /\ pc'[r] = "returned" => pc[r] \in {"finally", "returned"}
          /\ pc[r] = "returned" => pc'[r] = "returned"
          /\ (killPending'[r] /\ ~killPending[r]) => pc[r] = "finally"
          /\ (task'[r] = "killed" /\ task[r] = "spawned") => pc[r] = "finally"
          /\ (pc[r] = "finally" /\ pc'[r] # "finally") =>
               /\ pc'[r] = "returned"
               /\ task[r] = "spawned" => task'[r] = "killed" /\ ~killPending'[r]
               /\ task[r] = "querying" => task'[r] = "querying" /\ killPending'[r]
               /\ task[r] \in Dead => task'[r] = task[r] /\ ~killPending'[r]
               /\ exc'[r] = None
               /\ responses'[r] = responses[r]
               /\ retval'[r] = retval[r]]_vars

\* the handler returned its 200 after killing a greenlet that had finished
\* before the extras were attached
C17_Witness ==
  \E r \in Arrived :
    /\ Returned(r)
    /\ task[r] = "done"
    /\ Host(r) # None
    /\ ~killPending[r]
    /\ Status(r) = "200 OK"
    /\ exc[r] = None

\* the request as the client sent it: environ without the keys of the lookup
Sent(r) ==
  [environ[r] EXCEPT !.reverse_address = None, !.ptr_lookup_thread = None]

\* what the client sees of the handler ending in this exception
WireOf(raised) ==
  IF raised.type = "WSGIResponse"
    THEN [response |-> [status |-> raised.status, headers |-> raised.headers],
          body |-> raised.data]
    ELSE [response |-> FaultResponse(raised.msg),
          body |-> <<raised.msg \o "\n">>]

\* the exceptions __call__ can end in, given the request as sent, whether the
\* parser took the body and what handoff did; the lookup greenlet, its kill
\* and the name it stored do not occur here
Endings(r) ==
  LET refused == ValidateRequest(uri_pattern, Sent(r))
  IN  IF refused # None THEN {Get(refused, Fault(""))}
      ELSE IF ~(GetSender(Sent(r)).ok /\ GetRecipients(Sent(r)).ok)
        THEN {Fault("Incorrect padding")}
      ELSE IF ~ContentLength(Sent(r)).ok
        THEN {Fault("invalid literal for int() with base 10")}
      ELSE IF Get(env[r], Envelope(<<>>, <<>>)).message = None
        THEN {Fault("parse error")}
      ELSE IF outcome[r] # None
        THEN {EnqueueResult(<<<<"envelope", Get(outcome[r], Accepted)>>>>)}
      ELSE {Fault("handoff failed"), Fault("list index out of range")}

\* C18: status, headers and body are those of the request as sent, the
\* parser's verdict and handoff's outcome (one response for each; where
\* handoff gave no first result, the response of its raising or that of its
\* empty list), whatever the lookup greenlet did: a step of the greenlet or of
\* its kill changes nothing of the handler, the response or the envelope
C18_ResponseIgnoresLookup ==
  /\ [](\A r \in Arrived :
          pc[r] \in {"finally", "returned"} =>
            [response |-> Response(r), body |-> Get(retval[r], <<"">>)]
              \in {WireOf(raised) : raised \in Endings(r)}
            /\ Len(responses[r]) = 1)
  /\ [][\A r \in Reqs :
          (pc'[r] = pc[r]
             /\ <<task[r], killPending[r], environ[r]>>'
                  # <<task[r], killPending[r], environ[r]>>) =>
            /\ Sent(r)' = Sent(r)
            /\ <<exc[r], responses[r], retval[r], env[r], results[r],
                 outcome[r], handoffs[r], wsgi_input[r]>>'
                 = <<exc[r], responses[r], retval[r], env[r], results[r],
                     outcome[r], handoffs[r], wsgi_input[r]>>]_vars

\* the lookup died of a resolver error and the request was answered 200
C18_Witness ==
  \E r \in Arrived :
    /\ Returned(r)
    /\ task[r] = "failed"
    /\ outcome[r] = Some(Accepted)
    /\ Status(r) = "200 OK"
    /\ retval[r] = Some(<<>>)

\* C19: from the call of handoff on, no step changes the request's envelope,
\* and no step of the lookup greenlet changes it at any time: a name the
\* lookup stores during or after handoff stays in environ, and the envelope
\* keeps the client fields _add_envelope_extras gave it
C19_EnvelopeFrozenAtHandoff ==
  /\ [][\A r \in Reqs :
          /\ handoffs[r] >= 1 => env'[r] = env[r]
          /\ env'[r] # env[r] =>
               /\ pc[r] \in {"get_envelope", "read_body", "add_extras"}
               /\ pc'[r] # pc[r]
          /\ environ'[r].reverse_address # environ[r].reverse_address =>
               env'[r] = env[r]]_vars
  /\ [](\A r \in Arrived :
          handoffs[r] >= 1 =>
            LET client == Get(env[r], Envelope(<<>>, <<>>)).client
            IN  /\ env[r] # None
                /\ client.ip = Some(Get(environ[r].REMOTE_ADDR, "unknown"))
                /\ client.name = Some(GetEhlo(environ[r]))
                /\ client.protocol =
                     Some(ToUpper(Get(environ[r].url_scheme,
                                      <<"h", "t", "t", "p">>)))
                /\ client.host # None => client.host = environ[r].reverse_address)

\* the lookup stored a name once handoff had begun, and the envelope
\* delivered has no host
C19_Witness ==
  \E r \in Arrived :
    /\ Returned(r)
    /\ handoffs[r] = 1
    /\ LookupSucceeded(r)
    /\ Host(r) = None
    /\ Get(env[r], Envelope(<<>>, <<>>)).client.ip = Some("192.0.2.7")

\* all that belongs to one request
Own(r) ==
  <<environ[r], wsgi_input[r], pc[r], task[r], killPending[r], env[r],
    handoffs[r], results[r], outcome[r], exc[r], responses[r], retval[r]>>

\* the PTR records of the request's own client address
OwnNames(r) ==
  {Some(rec) : rec \in
     PtrRecords(FromAddress(Get(environ[r].REMOTE_ADDR, "0.0.0.0")))}

\* C20: with two requests in progress at once, each has one lookup greenlet,
\* spawned once by its own __call__ and held in its own environ; every step
\* changes the state of one request only; the name slot of a request is
\* written at most once, by the request's own greenlet as it finishes; and
\* the slot and client.host of a request hold nothing or a PTR record of
\* that request's own client address
C20_OneLookupPerRequest ==
  /\ [](\A r \in Reqs :
          /\ pc[r] = "call" <=> task[r] = "none"
          /\ environ[r].ptr_lookup_thread \in {None, Some(r)}
          /\ environ[r].reverse_address \in {None} \cup OwnNames(r)
          /\ Host(r) \in {None} \cup OwnNames(r)
          /\ \A q \in Reqs \ {r} :
               Host(r) # None => Host(r) \notin OwnNames(q))
  /\ [][/\ \A r, q \in Reqs :
            (Own(r)' # Own(r) /\ q # r) => Own(q)' = Own(q)
        /\ \A r \in Reqs :
            /\ (task'[r] = "spawned" /\ task[r] # "spawned") =>
                 task[r] = "none" /\ pc[r] = "call"
            /\ task[r] # "none" => task'[r] # "none"
            /\ task[r] \in Dead => task'[r] = task[r]
            /\ environ'[r].reverse_address # environ[r].reverse_address =>
                 /\ environ[r].reverse_address = None
                 /\ task[r] = "querying" /\ task'[r] = "done"
                 /\ pc'[r] = pc[r]]_vars

\* both requests are in handoff, each with a name of its own client address
\* in its envelope
C20_Witness ==
  /\ \A r \in Reqs : pc[r] = "in_handoff" /\ Host(r) \in OwnNames(r)
  /\ Host("r1") # Host("r2")

====
